---- MODULE Spec2Model ----
(***************************************************************************)
(* Model of do_python_release/__init__.py: the release workflow of main(), *)
(* the two hosting providers (GitHub, GitLab), the Version helper and the  *)
(* shell() runner.  Strings that the code searches or tests character by   *)
(* character (the remote URL, the typed answer) are sequences of           *)
(* one-character strings; all other strings are TLA+ strings.              *)
(***************************************************************************)
EXTENDS Integers, Sequences, FiniteSets, TLC

VARIABLES
    pc,            \* position of main()
    argToken,      \* args.token
    envGitHub,     \* os.getenv('GITHUB_ACCESS_TOKEN')
    envGitLab,     \* os.getenv('GITLAB_ACCESS_TOKEN')
    repo_remote,   \* main: repo_remote
    hoster,        \* main: hoster (None, or the provider's name)
    repo_name,     \* main: repo_name (Unbound until a pattern matched)
    token,         \* main: token
    backend,       \* Version.backend
    branch_names,  \* main: branch_names
    main_branch,   \* main: main_branch
    cur_branch,    \* main: cur_branch
    answer,        \* the string typed at the prompt
    result,        \* how main() ended
    exc,           \* the uncaught exception, if any
    lastLine,      \* the last line print()/input() wrote to stdout
    calls,         \* provider calls and mutating commands carried out, in order
    connectToken,  \* the token hoster.connect received
    prDest,        \* base/target branch of the created pull/merge request
    mrStatus,      \* merge_status of the merge request on the GitLab server
    polled,        \* merge_status returned by the last poll in GitLab.merge
    polls,         \* number of polls made by GitLab.merge (saturating)
    argVersion,    \* args.version
    pyproject,     \* what os.path.exists('pyproject.toml') returned
    declared,      \* the build-backend read from pyproject.toml
    shownVersion,  \* the version printed as 'Current version'
    planCmd,       \* the command shown in step 1 of the plan
    bumpCmd,       \* the command Version.bump ran
    pkgVersion,    \* the version pyproject.toml declares ('poetry version')
    commitMsg,     \* the message of the commit made
    title,         \* main: title
    body,          \* main: body
    pull,          \* what the provider was asked to create as pull/merge request
    merged,        \* what the provider's merge call was given
    lastCommit,    \* GitHub.release: the branch whose last commit was fetched
    release        \* what the provider was asked to create as release

vars == <<pc, argToken, envGitHub, envGitLab, repo_remote, hoster, repo_name,
          token, backend, branch_names, main_branch, cur_branch, answer,
          result, exc, lastLine, calls, connectToken, prDest, mrStatus,
          polled, polls, argVersion, pyproject, declared, shownVersion,
          planCmd, bumpCmd, pkgVersion, commitMsg, title, body, pull, merged,
          lastCommit, release>>

----------------------------------------------------------------------------
(* Bounds *)

\* the poll counter of the GitLab merge wait saturates here
MaxPolls == 3

----------------------------------------------------------------------------
(* Values *)

None == "<None>"
Unbound == <<"<unbound>">>
Unset == "<unset>"

\* literal pieces of the two patterns and of the remote URLs
GitHubHost == <<"g","i","t","h","u","b",".","c","o","m">>
GitLabHost == <<"g","i","t","@","g","i","t","l","a","b",".","g","w","d","g",".","d","e">>
DotGit == <<".","g","i","t">>
Separators == {":", "/"}

GitAt == <<"g","i","t","@">>
Https == <<"h","t","t","p","s",":","/","/">>
PathAW == <<"a","/","w">>
PathGhW == GitHubHost \o <<"/","w">>
GitLabCom == <<"g","i","t","l","a","b",".","c","o","m">>
GwdgHost == <<"g","i","t","l","a","b",".","g","w","d","g",".","d","e">>

\* outputs of 'git config --get remote.origin.url' that are tried
RemoteURLs ==
    { <<>>,
      GitAt \o GitHubHost \o <<":">> \o PathAW \o DotGit,
      Https \o GitHubHost \o <<"/">> \o PathAW \o DotGit,
      Https \o GitHubHost \o <<"/">> \o PathAW,
      GitLabHost \o <<":">> \o PathAW \o DotGit,
      Https \o GwdgHost \o <<"/">> \o PathAW \o DotGit,
      GitLabHost \o <<":">> \o PathGhW \o DotGit,
      GitAt \o GitLabCom \o <<":">> \o PathAW \o DotGit,
      GitAt \o GitHubHost \o <<":">> \o PathGhW \o DotGit }

\* strings typed at the prompt that are tried
Answers ==
    { <<>>, <<"y">>, <<"Y">>, <<"n">>, <<"N">>, <<"y","Y">>, <<"Y","y">>,
      <<"y","e","s">> }

ArgTokens == {None, "t-arg"}
GitHubEnvTokens == {None, "t-gh"}
GitLabEnvTokens == {None, "t-gl"}

BackendDecls == {"hatchling.build", "poetry.core.masonry.api", "setuptools.build_meta"}
BranchUniverse == {"develop", "main", "master", "feature"}
CurBranches == {"develop", "main", "Develop"}
MergeStatuses == {"can_be_merged", "checking", "cannot_be_merged"}

\* values of -v/--version that are tried
ArgVersions == {None, "patch", "2.0.0", "1.2.3"}
\* the version pyproject.toml declares when the run starts
DeclaredVersion == "1.2.3"

\* nothing asked of the provider yet
NoPull == [src |-> None, dest |-> None, title |-> None, body |-> None]
NoMerge == [done |-> FALSE, title |-> None, body |-> None]
NoRelease == [ref |-> None, tag |-> None, name |-> None, body |-> None]

----------------------------------------------------------------------------
(* Pure functions *)

Min(a, b) == IF a < b THEN a ELSE b

\* the literal lit occurs in s at position i
LiteralAt(s, lit, i) ==
    /\ i + Len(lit) - 1 <= Len(s)
    /\ SubSeq(s, i, i + Len(lit) - 1) = lit

\* positions where  <lit>[:/](.*)\.git$  matches s
MatchStarts(s, lit) ==
    { i \in 1..Len(s) :
        /\ LiteralAt(s, lit, i)
        /\ i + Len(lit) <= Len(s)
        /\ s[i + Len(lit)] \in Separators
        /\ Len(s) - Len(DotGit) >= i + Len(lit)
        /\ SubSeq(s, Len(s) - Len(DotGit) + 1, Len(s)) = DotGit
        /\ \A k \in (i + Len(lit) + 1)..(Len(s) - Len(DotGit)) : s[k] # "\n" }

\* re.search(<lit>[:/](.*)\.git$, s): the leftmost match and its group 1
Search(s, lit) ==
    LET starts == MatchStarts(s, lit) IN
    IF starts = {} THEN [matched |-> FALSE, group |-> <<>>]
    ELSE LET i == CHOOSE j \in starts : \A k \in starts : j <= k IN
         [matched |-> TRUE,
          group |-> SubSeq(s, i + Len(lit) + 1, Len(s) - Len(DotGit))]

\* variant of SelectHoster: the first pattern that matches wins
SelectHoster_FirstWins(url) ==
    IF Search(url, GitHubHost).matched THEN "GitHub"
    ELSE IF Search(url, GitLabHost).matched THEN "GitLab"
    ELSE None

\* main, lines 133-141: both patterns are tried in turn, a later match
\* overwrites what an earlier match assigned
SelectHoster(url) ==
    LET h1 == IF Search(url, GitHubHost).matched THEN "GitHub" ELSE None IN
    IF Search(url, GitLabHost).matched THEN "GitLab" ELSE h1

SelectRepoName(url) ==
    LET n1 == IF Search(url, GitHubHost).matched
              THEN Search(url, GitHubHost).group ELSE Unbound IN
    IF Search(url, GitLabHost).matched
    THEN Search(url, GitLabHost).group ELSE n1

\* Python's  a in s  for strings: a is a substring of s
IsSubstring(a, s) ==
    \E i \in 0..(Len(s) - Len(a)) : SubSeq(s, i + 1, i + Len(a)) = a

\* the test of line 206:  input(...) not in 'yY'  is false
Accepted(a) == IsSubstring(a, <<"y","Y">>)

\* variant of ResolvedToken: falls back to whichever variable is set
ResolvedToken_AnyEnv(arg, h, gh, gl) ==
    LET t1 == IF arg = None /\ h # None THEN gh ELSE arg IN
    IF t1 = None /\ h # None THEN gl ELSE t1

\* main, lines 144-148
ResolvedToken(arg, h, gh, gl) ==
    LET t1 == IF arg = None /\ h = "GitHub" THEN gh ELSE arg IN
    IF t1 = None /\ h = "GitLab" THEN gl ELSE t1

\* variant of DetectBackend: an unknown declaration is taken for poetry
DetectBackend_Default(decl) ==
    IF decl = "hatchling.build" THEN "uv" ELSE "poetry"

\* Version.__init__, lines 82-88
DetectBackend(decl) ==
    IF decl = "hatchling.build" THEN "uv"
    ELSE IF decl = "poetry.core.masonry.api" THEN "poetry"
    ELSE "RuntimeError"

\* variant of Command: no default, a missing version is formatted as it is
Command_NoDefault(b, version) ==
    LET v == IF version = None THEN "None" ELSE version IN
    IF b = "uv" THEN "uv version --bump " \o v
    ELSE IF b = "poetry" THEN "poetry version " \o v
    ELSE "RuntimeError"

\* Version.command, lines 100-109
Command(b, version) ==
    LET v == IF version = None THEN "patch" ELSE version IN
    IF b = "uv" THEN "uv version --bump " \o v
    ELSE IF b = "poetry" THEN "poetry version " \o v
    ELSE "RuntimeError"

\* the patch increment of the versions used here
NextPatch == [v \in {DeclaredVersion} |-> "1.2.4"]

\* Version.bump, lines 111-112: what the command run does to the version
\* that pyproject.toml declares
BumpedVersion(cur, version) ==
    IF version \in {None, "patch"} THEN NextPatch[cur] ELSE version

\* exit status of the process for each way main() can end (lines 241-243)
ExitStatus(r) ==
    CASE r = "return None" -> 0
      [] r = "return 0" -> 0
      [] r = "return 1" -> 1
      [] r = "sys.exit(1)" -> 1
      [] r = "raise" -> 1

----------------------------------------------------------------------------
(* Initial state: arguments parsed, environment fixed *)

Init ==
    /\ pc = "identify"
    /\ argToken \in ArgTokens
    /\ envGitHub \in GitHubEnvTokens
    /\ envGitLab \in GitLabEnvTokens
    /\ repo_remote = Unbound
    /\ hoster = None
    /\ repo_name = Unbound
    /\ token = None
    /\ backend = Unset
    /\ branch_names = {}
    /\ main_branch = Unset
    /\ cur_branch = Unset
    /\ answer = Unbound
    /\ result = "running"
    /\ exc = "none"
    /\ lastLine = ""
    /\ calls = <<>>
    /\ connectToken = None
    /\ prDest = Unset
    /\ mrStatus = Unset
    /\ polled = Unset
    /\ polls = 0
    /\ argVersion \in ArgVersions
    /\ pyproject = Unset
    /\ declared = Unset
    /\ shownVersion = Unset
    /\ planCmd = Unset
    /\ bumpCmd = Unset
    /\ pkgVersion = DeclaredVersion
    /\ commitMsg = Unset
    /\ title = Unset
    /\ body = Unset
    /\ pull = NoPull
    /\ merged = NoMerge
    /\ lastCommit = Unset
    /\ release = NoRelease

----------------------------------------------------------------------------
(* Ways a step ends the run *)

\* an uncaught exception e leaves main(); the traceback goes to stderr, the
\* last line on stdout is line
Raises(e, line) ==
    /\ pc' = "halt"
    /\ result' = "raise"
    /\ exc' = e
    /\ lastLine' = line
    /\ UNCHANGED <<argToken, envGitHub, envGitLab, repo_remote, hoster,
                   repo_name, token, backend, branch_names, main_branch,
                   cur_branch, answer, calls, connectToken, prDest, mrStatus,
                   polled, polls, argVersion, pyproject, declared,
                   shownVersion, planCmd, bumpCmd, pkgVersion, commitMsg,
                   title, body, pull, merged, lastCommit, release>>

\* print(line) followed by  return code  or  sys.exit(1)
Halts(how, line) ==
    /\ pc' = "halt"
    /\ result' = how
    /\ lastLine' = line
    /\ UNCHANGED exc

----------------------------------------------------------------------------
(* main(): the preconditions, lines 122-194 *)

\* lines 123-130: read user.name and remote.origin.url
Identify ==
    /\ pc = "identify"
    /\ \E url \in RemoteURLs :
         /\ repo_remote' = url
         /\ IF url = <<>>
            THEN Halts("sys.exit(1)", "Not a git repository.")
            ELSE /\ pc' = "select"
                 /\ lastLine' = "<repo_remote>"
                 /\ UNCHANGED <<result, exc>>
    /\ UNCHANGED <<argToken, envGitHub, envGitLab, hoster, repo_name, token,
                   backend, branch_names, main_branch, cur_branch, answer,
                   calls, connectToken, prDest, mrStatus, polled, polls,
                   argVersion, pyproject, declared, shownVersion, planCmd,
                   bumpCmd, pkgVersion, commitMsg, title, body, pull, merged,
                   lastCommit, release>>

\* one of the two git config commands exits non-zero
IdentifyFails ==
    /\ pc = "identify"
    /\ Raises("CalledProcessError", lastLine)

\* lines 133-141
SelectProvider ==
    /\ pc = "select"
    /\ hoster' = SelectHoster(repo_remote)
    /\ repo_name' = SelectRepoName(repo_remote)
    /\ pc' = "token"
    /\ UNCHANGED <<argToken, envGitHub, envGitLab, repo_remote, token,
                   backend, branch_names, main_branch, cur_branch, answer,
                   result, exc, lastLine, calls, connectToken, prDest,
                   mrStatus, polled, polls, argVersion, pyproject, declared,
                   shownVersion, planCmd, bumpCmd, pkgVersion, commitMsg,
                   title, body, pull, merged, lastCommit, release>>

\* lines 144-153; reached with a token and a provider, or with a token only
ResolveToken ==
    /\ pc = "token"
    /\ ~(argToken = None /\ hoster = None)
    /\ token' = ResolvedToken(argToken, hoster, envGitHub, envGitLab)
    /\ IF token' = None
       THEN Halts("return 1", "No <hoster> access token found.")
       ELSE /\ pc' = "print_info"
            /\ UNCHANGED <<result, exc, lastLine>>
    /\ UNCHANGED <<argToken, envGitHub, envGitLab, repo_remote, hoster,
                   repo_name, backend, branch_names, main_branch, cur_branch,
                   answer, calls, connectToken, prDest, mrStatus, polled,
                   polls, argVersion, pyproject, declared, shownVersion,
                   planCmd, bumpCmd, pkgVersion, commitMsg, title, body,
                   pull, merged, lastCommit, release>>

\* line 145: hoster.name is evaluated on None
ResolveTokenNoHoster ==
    /\ argToken = None
    /\ hoster = None
    /\ pc = "token"
    /\ Raises("AttributeError", lastLine)

\* lines 156-157
PrintInfo ==
    /\ pc = "print_info"
    /\ repo_name # Unbound
    /\ pc' = "pyproject"
    /\ lastLine' = "User: <repo_owner>"
    /\ UNCHANGED <<argToken, envGitHub, envGitLab, repo_remote, hoster,
                   repo_name, token, backend, branch_names, main_branch,
                   cur_branch, answer, result, exc, calls, connectToken,
                   prDest, mrStatus, polled, polls, argVersion, pyproject,
                   declared, shownVersion, planCmd, bumpCmd, pkgVersion,
                   commitMsg, title, body, pull, merged, lastCommit, release>>

\* line 156: repo_name was never assigned
PrintInfoUnbound ==
    /\ repo_name = Unbound
    /\ pc = "print_info"
    /\ Raises("UnboundLocalError", lastLine)

\* variant of ValidateProject: a missing pyproject.toml does not stop the run
ValidateProject_Ignored ==
    /\ pc = "pyproject"
    /\ \E exists \in BOOLEAN :
         pyproject' = IF exists THEN "present" ELSE "absent"
    /\ pc' = "connect"
    /\ UNCHANGED <<argToken, envGitHub, envGitLab, repo_remote, hoster,
                   repo_name, token, backend, branch_names, main_branch,
                   cur_branch, answer, result, exc, lastLine, calls,
                   connectToken, prDest, mrStatus, polled, polls, argVersion,
                   declared, shownVersion, planCmd, bumpCmd, pkgVersion,
                   commitMsg, title, body, pull, merged, lastCommit, release>>

\* lines 160-162
ValidateProject ==
    /\ pc = "pyproject"
    /\ \E exists \in BOOLEAN :
         IF exists
         THEN /\ pyproject' = "present"
              /\ pc' = "version"
              /\ UNCHANGED <<result, exc, lastLine>>
         ELSE /\ pyproject' = "absent"
              /\ Halts("return 1", "No pyproject.toml found.")
    /\ UNCHANGED <<argToken, envGitHub, envGitLab, repo_remote, hoster,
                   repo_name, token, backend, branch_names, main_branch,
                   cur_branch, answer, calls, connectToken, prDest, mrStatus,
                   polled, polls, argVersion, declared, shownVersion,
                   planCmd, bumpCmd, pkgVersion, commitMsg, title, body,
                   pull, merged, lastCommit, release>>

\* line 165, Version.__init__ (lines 80-95) with a known backend whose tool runs
LoadVersion ==
    /\ pc = "version"
    /\ \E decl \in BackendDecls :
         /\ DetectBackend(decl) # "RuntimeError"
         /\ declared' = decl
         /\ backend' = DetectBackend(decl)
    /\ pc' = "curversion"
    /\ lastLine' = "Build backend: <backend>"
    /\ UNCHANGED <<argToken, envGitHub, envGitLab, repo_remote, hoster,
                   repo_name, token, branch_names, main_branch, cur_branch,
                   answer, result, exc, calls, connectToken, prDest,
                   mrStatus, polled, polls, argVersion, pyproject,
                   shownVersion, planCmd, bumpCmd, pkgVersion, commitMsg,
                   title, body, pull, merged, lastCommit, release>>

\* lines 87-88: the declared backend is neither of the two known ones
LoadVersionUnknownBackend ==
    /\ pc = "version"
    /\ \E decl \in BackendDecls :
         /\ DetectBackend(decl) = "RuntimeError"
         /\ declared' = decl
    /\ pc' = "halt"
    /\ result' = "raise"
    /\ exc' = "RuntimeError: Could not determine backend from pyproject.toml."
    /\ UNCHANGED <<argToken, envGitHub, envGitLab, repo_remote, hoster,
                   repo_name, token, backend, branch_names, main_branch,
                   cur_branch, answer, lastLine, calls, connectToken, prDest,
                   mrStatus, polled, polls, argVersion, pyproject,
                   shownVersion, planCmd, bumpCmd, pkgVersion, commitMsg,
                   title, body, pull, merged, lastCommit, release>>

\* lines 92-95: '<backend> -V' exits non-zero
LoadVersionNoTool ==
    /\ pc = "version"
    /\ \E decl \in BackendDecls :
         /\ DetectBackend(decl) # "RuntimeError"
         /\ declared' = decl
         /\ backend' = DetectBackend(decl)
    /\ pc' = "halt"
    /\ result' = "raise"
    /\ exc' = "RuntimeError: No " \o backend' \o " found."
    /\ lastLine' = "Build backend: <backend>"
    /\ UNCHANGED <<argToken, envGitHub, envGitLab, repo_remote, hoster,
                   repo_name, token, branch_names, main_branch, cur_branch,
                   answer, calls, connectToken, prDest, mrStatus, polled,
                   polls, argVersion, pyproject, shownVersion, planCmd,
                   bumpCmd, pkgVersion, commitMsg, title, body, pull, merged,
                   lastCommit, release>>

\* line 168
ShowCurrentVersion ==
    /\ pc = "curversion"
    /\ pc' = "connect"
    /\ lastLine' = "Current version: <version>"
    /\ shownVersion' = pkgVersion
    /\ UNCHANGED <<argToken, envGitHub, envGitLab, repo_remote, hoster,
                   repo_name, token, backend, branch_names, main_branch,
                   cur_branch, answer, result, exc, calls, connectToken,
                   prDest, mrStatus, polled, polls, argVersion, pyproject,
                   declared, planCmd, bumpCmd, pkgVersion, commitMsg, title,
                   body, pull, merged, lastCommit, release>>

\* line 98: 'poetry version' exits non-zero
ShowCurrentVersionFails ==
    /\ pc = "curversion"
    /\ Raises("CalledProcessError", lastLine)

\* lines 171-173: hoster.connect(token)
Connect ==
    /\ pc = "connect"
    /\ connectToken' = token
    /\ calls' = Append(calls, "connect")
    /\ pc' = "use_repo"
    /\ lastLine' = "Connecting to <hoster>..."
    /\ UNCHANGED <<argToken, envGitHub, envGitLab, repo_remote, hoster,
                   repo_name, token, backend, branch_names, main_branch,
                   cur_branch, answer, result, exc, prDest, mrStatus, polled,
                   polls, argVersion, pyproject, declared, shownVersion,
                   planCmd, bumpCmd, pkgVersion, commitMsg, title, body,
                   pull, merged, lastCommit, release>>

\* line 58: GitLab's connect authenticates and may be refused
ConnectFails ==
    /\ hoster = "GitLab"
    /\ pc = "connect"
    /\ Raises("GitlabError", "Connecting to <hoster>...")

\* lines 176-177: hoster.use_repo(repo_name)
UseRepo ==
    /\ pc = "use_repo"
    /\ calls' = Append(calls, "use_repo")
    /\ pc' = "get_branches"
    /\ lastLine' = "Fetching repository..."
    /\ UNCHANGED <<argToken, envGitHub, envGitLab, repo_remote, hoster,
                   repo_name, token, backend, branch_names, main_branch,
                   cur_branch, answer, result, exc, connectToken, prDest,
                   mrStatus, polled, polls, argVersion, pyproject, declared,
                   shownVersion, planCmd, bumpCmd, pkgVersion, commitMsg,
                   title, body, pull, merged, lastCommit, release>>

UseRepoFails ==
    /\ pc = "use_repo"
    /\ Raises("ProviderError", "Fetching repository...")

\* variant of FetchBranches: main/master is looked for before develop
FetchBranches_MainFirst ==
    /\ pc = "get_branches"
    /\ calls' = Append(calls, "get_branches")
    /\ \E bs \in SUBSET BranchUniverse :
         /\ branch_names' = bs
         /\ IF bs \cap {"main", "master"} = {}
            THEN /\ main_branch' = "master"
                 /\ Halts("return 1", "No main/master branch found.")
            ELSE IF "develop" \notin bs
            THEN /\ Halts("return 1", "No develop branch found.")
                 /\ UNCHANGED main_branch
            ELSE /\ main_branch' = IF "main" \in bs THEN "main" ELSE "master"
                 /\ pc' = "cur_branch"
                 /\ UNCHANGED <<result, exc, lastLine>>
    /\ UNCHANGED <<argToken, envGitHub, envGitLab, repo_remote, hoster,
                   repo_name, token, backend, cur_branch, answer,
                   connectToken, prDest, mrStatus, polled, polls, argVersion,
                   pyproject, declared, shownVersion, planCmd, bumpCmd,
                   pkgVersion, commitMsg, title, body, pull, merged,
                   lastCommit, release>>

\* lines 178-188: fetch the branch list, require develop and main or master
FetchBranches ==
    /\ pc = "get_branches"
    /\ calls' = Append(calls, "get_branches")
    /\ \E bs \in SUBSET BranchUniverse :
         /\ branch_names' = bs
         /\ IF "develop" \notin bs
            THEN /\ Halts("return 1", "No develop branch found.")
                 /\ UNCHANGED main_branch
            ELSE IF "main" \in bs
            THEN /\ main_branch' = "main"
                 /\ pc' = "cur_branch"
                 /\ UNCHANGED <<result, exc, lastLine>>
            ELSE IF "master" \in bs
            THEN /\ main_branch' = "master"
                 /\ pc' = "cur_branch"
                 /\ UNCHANGED <<result, exc, lastLine>>
            ELSE /\ main_branch' = "master"
                 /\ Halts("return 1", "No main/master branch found.")
    /\ UNCHANGED <<argToken, envGitHub, envGitLab, repo_remote, hoster,
                   repo_name, token, backend, cur_branch, answer,
                   connectToken, prDest, mrStatus, polled, polls, argVersion,
                   pyproject, declared, shownVersion, planCmd, bumpCmd,
                   pkgVersion, commitMsg, title, body, pull, merged,
                   lastCommit, release>>

FetchBranchesFails ==
    /\ pc = "get_branches"
    /\ Raises("ProviderError", lastLine)

\* lines 191-194
CheckCurrentBranch ==
    /\ pc = "cur_branch"
    /\ \E b \in CurBranches :
         /\ cur_branch' = b
         /\ IF b # "develop"
            THEN Halts("return 1", "Current branch is not develop.")
            ELSE /\ pc' = "prompt"
                 /\ UNCHANGED <<result, exc, lastLine>>
    /\ UNCHANGED <<argToken, envGitHub, envGitLab, repo_remote, hoster,
                   repo_name, token, backend, branch_names, main_branch,
                   answer, calls, connectToken, prDest, mrStatus, polled,
                   polls, argVersion, pyproject, declared, shownVersion,
                   planCmd, bumpCmd, pkgVersion, commitMsg, title, body,
                   pull, merged, lastCommit, release>>

CheckCurrentBranchFails ==
    /\ pc = "cur_branch"
    /\ Raises("CalledProcessError", lastLine)

----------------------------------------------------------------------------
(* main(): plan and confirmation, lines 197-207 *)

Prompt ==
    /\ pc = "prompt"
    /\ \E a \in Answers :
         /\ answer' = a
         /\ IF ~Accepted(a)
            THEN Halts("return 0", "Continue [y/N]")
            ELSE /\ pc' = "bump"
                 /\ lastLine' = "Continue [y/N]"
                 /\ UNCHANGED <<result, exc>>
    /\ planCmd' = Command(backend, argVersion)
    /\ UNCHANGED <<argToken, envGitHub, envGitLab, repo_remote, hoster,
                   repo_name, token, backend, branch_names, main_branch,
                   cur_branch, calls, connectToken, prDest, mrStatus, polled,
                   polls, argVersion, pyproject, declared, shownVersion,
                   bumpCmd, pkgVersion, commitMsg, title, body, pull, merged,
                   lastCommit, release>>

\* input() meets end of file on stdin
PromptEOF ==
    /\ pc = "prompt"
    /\ planCmd' = Command(backend, argVersion)
    /\ pc' = "halt"
    /\ result' = "raise"
    /\ exc' = "EOFError"
    /\ lastLine' = "Continue [y/N]"
    /\ UNCHANGED <<argToken, envGitHub, envGitLab, repo_remote, hoster,
                   repo_name, token, backend, branch_names, main_branch,
                   cur_branch, answer, calls, connectToken, prDest, mrStatus,
                   polled, polls, argVersion, pyproject, declared,
                   shownVersion, bumpCmd, pkgVersion, commitMsg, title, body,
                   pull, merged, lastCommit, release>>

----------------------------------------------------------------------------
(* main(): Execute, lines 209-233 *)

\* lines 210-212: version.bump(args.version)
Bump ==
    /\ pc = "bump"
    /\ calls' = Append(calls, "bump")
    /\ pc' = "newversion"
    /\ lastLine' = "Setting new version..."
    /\ bumpCmd' = Command(backend, argVersion)
    /\ pkgVersion' = BumpedVersion(pkgVersion, argVersion)
    /\ UNCHANGED <<argToken, envGitHub, envGitLab, repo_remote, hoster,
                   repo_name, token, backend, branch_names, main_branch,
                   cur_branch, answer, result, exc, connectToken, prDest,
                   mrStatus, polled, polls, argVersion, pyproject, declared,
                   shownVersion, planCmd, commitMsg, title, body, pull,
                   merged, lastCommit, release>>

BumpFails ==
    /\ pc = "bump"
    /\ bumpCmd' = Command(backend, argVersion)
    /\ pc' = "halt"
    /\ result' = "raise"
    /\ exc' = "CalledProcessError"
    /\ lastLine' = "Setting new version..."
    /\ UNCHANGED <<argToken, envGitHub, envGitLab, repo_remote, hoster,
                   repo_name, token, backend, branch_names, main_branch,
                   cur_branch, answer, calls, connectToken, prDest, mrStatus,
                   polled, polls, argVersion, pyproject, declared,
                   shownVersion, planCmd, pkgVersion, commitMsg, title, body,
                   pull, merged, lastCommit, release>>

\* line 213
ShowNewVersion ==
    /\ pc = "newversion"
    /\ pc' = "commit"
    /\ lastLine' = "New version: <version>"
    /\ UNCHANGED <<argToken, envGitHub, envGitLab, repo_remote, hoster,
                   repo_name, token, backend, branch_names, main_branch,
                   cur_branch, answer, result, exc, calls, connectToken,
                   prDest, mrStatus, polled, polls, argVersion, pyproject,
                   declared, shownVersion, planCmd, bumpCmd, pkgVersion,
                   commitMsg, title, body, pull, merged, lastCommit, release>>

ShowNewVersionFails ==
    /\ pc = "newversion"
    /\ Raises("CalledProcessError", lastLine)

\* variant of Commit: goes on to the push without committing
Commit_Skipped ==
    /\ pc = "commit"
    /\ pc' = "push"
    /\ UNCHANGED <<argToken, envGitHub, envGitLab, repo_remote, hoster,
                   repo_name, token, backend, branch_names, main_branch,
                   cur_branch, answer, result, exc, lastLine, calls,
                   connectToken, prDest, mrStatus, polled, polls, argVersion,
                   pyproject, declared, shownVersion, planCmd, bumpCmd,
                   pkgVersion, commitMsg, title, body, pull, merged,
                   lastCommit, release>>

\* line 216: git commit -m "v<version>" pyproject.toml
Commit ==
    /\ pc = "commit"
    /\ calls' = Append(calls, "commit")
    /\ pc' = "push"
    /\ commitMsg' = "v" \o pkgVersion
    /\ UNCHANGED <<argToken, envGitHub, envGitLab, repo_remote, hoster,
                   repo_name, token, backend, branch_names, main_branch,
                   cur_branch, answer, result, exc, lastLine, connectToken,
                   prDest, mrStatus, polled, polls, argVersion, pyproject,
                   declared, shownVersion, planCmd, bumpCmd, pkgVersion,
                   title, body, pull, merged, lastCommit, release>>

CommitFails ==
    /\ pc = "commit"
    /\ Raises("CalledProcessError", lastLine)

\* line 217: git push
Push ==
    /\ pc = "push"
    /\ calls' = Append(calls, "push")
    /\ pc' = "title"
    /\ UNCHANGED <<argToken, envGitHub, envGitLab, repo_remote, hoster,
                   repo_name, token, backend, branch_names, main_branch,
                   cur_branch, answer, result, exc, lastLine, connectToken,
                   prDest, mrStatus, polled, polls, argVersion, pyproject,
                   declared, shownVersion, planCmd, bumpCmd, pkgVersion,
                   commitMsg, title, body, pull, merged, lastCommit, release>>

PushFails ==
    /\ pc = "push"
    /\ Raises("CalledProcessError", lastLine)

\* variant of MakeTitle: the version read before the bump is reused
MakeTitle_Stale ==
    /\ pc = "title"
    /\ pc' = "create_pull"
    /\ title' = "v" \o shownVersion
    /\ body' = "version " \o shownVersion
    /\ UNCHANGED <<argToken, envGitHub, envGitLab, repo_remote, hoster,
                   repo_name, token, backend, branch_names, main_branch,
                   cur_branch, answer, result, exc, lastLine, calls,
                   connectToken, prDest, mrStatus, polled, polls, argVersion,
                   pyproject, declared, shownVersion, planCmd, bumpCmd,
                   pkgVersion, commitMsg, pull, merged, lastCommit, release>>

\* lines 220-221: title and body from two more version queries
MakeTitle ==
    /\ pc = "title"
    /\ pc' = "create_pull"
    /\ title' = "v" \o pkgVersion
    /\ body' = "version " \o pkgVersion
    /\ UNCHANGED <<argToken, envGitHub, envGitLab, repo_remote, hoster,
                   repo_name, token, backend, branch_names, main_branch,
                   cur_branch, answer, result, exc, lastLine, calls,
                   connectToken, prDest, mrStatus, polled, polls, argVersion,
                   pyproject, declared, shownVersion, planCmd, bumpCmd,
                   pkgVersion, commitMsg, pull, merged, lastCommit, release>>

MakeTitleFails ==
    /\ pc = "title"
    /\ Raises("CalledProcessError", lastLine)

\* lines 224-225; GitHub.create_pull (31-32), GitLab.create_pull (66-67)
CreatePull ==
    /\ pc = "create_pull"
    /\ calls' = Append(calls, "create_pull")
    /\ prDest' = main_branch
    /\ IF hoster = "GitLab"
       THEN mrStatus' \in MergeStatuses
       ELSE UNCHANGED mrStatus
    /\ pc' = "merge"
    /\ lastLine' = "Creating PR..."
    /\ pull' = [src |-> "develop", dest |-> main_branch, title |-> title,
                body |-> IF hoster = "GitHub" THEN body ELSE None]
    /\ UNCHANGED <<argToken, envGitHub, envGitLab, repo_remote, hoster,
                   repo_name, token, backend, branch_names, main_branch,
                   cur_branch, answer, result, exc, connectToken, polled,
                   polls, argVersion, pyproject, declared, shownVersion,
                   planCmd, bumpCmd, pkgVersion, commitMsg, title, body,
                   merged, lastCommit, release>>

CreatePullFails ==
    /\ pc = "create_pull"
    /\ Raises("ProviderError", "Creating PR...")

\* lines 228-229 with GitHub.merge (34-35): merge at once
MergeGitHub ==
    /\ pc = "merge"
    /\ hoster = "GitHub"
    /\ calls' = Append(calls, "merge")
    /\ pc' = "release"
    /\ lastLine' = "Merging PR..."
    /\ merged' = [done |-> TRUE, title |-> title, body |-> body]
    /\ UNCHANGED <<argToken, envGitHub, envGitLab, repo_remote, hoster,
                   repo_name, token, backend, branch_names, main_branch,
                   cur_branch, answer, result, exc, connectToken, prDest,
                   mrStatus, polled, polls, argVersion, pyproject, declared,
                   shownVersion, planCmd, bumpCmd, pkgVersion, commitMsg,
                   title, body, pull, lastCommit, release>>

\* variant of MergeGitHubFails: the pull request is closed again when the
\* merge fails
MergeGitHubFails_ClosesPull ==
    /\ hoster = "GitHub"
    /\ pc = "merge"
    /\ pc' = "halt"
    /\ result' = "raise"
    /\ exc' = "ProviderError"
    /\ lastLine' = "Merging PR..."
    /\ calls' = SubSeq(calls, 1, Len(calls) - 1)
    /\ UNCHANGED <<argToken, envGitHub, envGitLab, repo_remote, hoster,
                   repo_name, token, backend, branch_names, main_branch,
                   cur_branch, answer, connectToken, prDest, mrStatus,
                   polled, polls, argVersion, pyproject, declared,
                   shownVersion, planCmd, bumpCmd, pkgVersion, commitMsg,
                   title, body, pull, merged, lastCommit, release>>

MergeGitHubFails ==
    /\ hoster = "GitHub"
    /\ pc = "merge"
    /\ Raises("ProviderError", "Merging PR...")

\* variant of PollStatus: only "cannot_be_merged" keeps the loop going
PollStatus_Loose ==
    /\ pc = "merge"
    /\ hoster = "GitLab"
    /\ polled' = mrStatus
    /\ polls' = Min(polls + 1, MaxPolls)
    /\ pc' = IF polled' = "cannot_be_merged" THEN "merge_sleep" ELSE "merge_call"
    /\ lastLine' = "Merging PR..."
    /\ UNCHANGED <<argToken, envGitHub, envGitLab, repo_remote, hoster,
                   repo_name, token, backend, branch_names, main_branch,
                   cur_branch, answer, result, exc, calls, connectToken,
                   prDest, mrStatus, argVersion, pyproject, declared,
                   shownVersion, planCmd, bumpCmd, pkgVersion, commitMsg,
                   title, body, pull, merged, lastCommit, release>>

\* GitLab.merge, line 70: one evaluation of the loop condition
PollStatus ==
    /\ pc = "merge"
    /\ hoster = "GitLab"
    /\ polled' = mrStatus
    /\ polls' = Min(polls + 1, MaxPolls)
    /\ pc' = IF polled' # "can_be_merged" THEN "merge_sleep" ELSE "merge_call"
    /\ lastLine' = "Merging PR..."
    /\ UNCHANGED <<argToken, envGitHub, envGitLab, repo_remote, hoster,
                   repo_name, token, backend, branch_names, main_branch,
                   cur_branch, answer, result, exc, calls, connectToken,
                   prDest, mrStatus, argVersion, pyproject, declared,
                   shownVersion, planCmd, bumpCmd, pkgVersion, commitMsg,
                   title, body, pull, merged, lastCommit, release>>

PollStatusFails ==
    /\ hoster = "GitLab"
    /\ pc = "merge"
    /\ Raises("ProviderError", "Merging PR...")

\* variant of Sleep: the wait gives up after two polls
Sleep_GivesUp ==
    /\ pc = "merge_sleep"
    /\ IF polls >= 2
       THEN /\ pc' = "halt"
            /\ result' = "return 1"
            /\ lastLine' = "Merge request is not mergeable."
       ELSE /\ pc' = "merge"
            /\ UNCHANGED <<result, lastLine>>
    /\ UNCHANGED <<argToken, envGitHub, envGitLab, repo_remote, hoster,
                   repo_name, token, backend, branch_names, main_branch,
                   cur_branch, answer, exc, calls, connectToken, prDest,
                   mrStatus, polled, polls, argVersion, pyproject, declared,
                   shownVersion, planCmd, bumpCmd, pkgVersion, commitMsg,
                   title, body, pull, merged, lastCommit, release>>

\* GitLab.merge, line 71: time.sleep(1), then the condition again
Sleep ==
    /\ pc = "merge_sleep"
    /\ pc' = "merge"
    /\ UNCHANGED <<argToken, envGitHub, envGitLab, repo_remote, hoster,
                   repo_name, token, backend, branch_names, main_branch,
                   cur_branch, answer, result, exc, lastLine, calls,
                   connectToken, prDest, mrStatus, polled, polls, argVersion,
                   pyproject, declared, shownVersion, planCmd, bumpCmd,
                   pkgVersion, commitMsg, title, body, pull, merged,
                   lastCommit, release>>

\* GitLab.merge, line 72: self.mr.merge()
MergeGitLab ==
    /\ pc = "merge_call"
    /\ calls' = Append(calls, "merge")
    /\ pc' = "release"
    /\ merged' = [done |-> TRUE, title |-> None, body |-> None]
    /\ UNCHANGED <<argToken, envGitHub, envGitLab, repo_remote, hoster,
                   repo_name, token, backend, branch_names, main_branch,
                   cur_branch, answer, result, exc, lastLine, connectToken,
                   prDest, mrStatus, polled, polls, argVersion, pyproject,
                   declared, shownVersion, planCmd, bumpCmd, pkgVersion,
                   commitMsg, title, body, pull, lastCommit, release>>

MergeGitLabFails ==
    /\ pc = "merge_call"
    /\ Raises("ProviderError", lastLine)

\* GitHub.release, lines 38-40: fetch the last commit
FetchLastCommit ==
    /\ pc = "release"
    /\ hoster = "GitHub"
    /\ calls' = Append(calls, "get_commits")
    /\ pc' = "release_tag"
    /\ lastLine' = "Commit is <sha>."
    /\ lastCommit' \in branch_names
    /\ UNCHANGED <<argToken, envGitHub, envGitLab, repo_remote, hoster,
                   repo_name, token, backend, branch_names, main_branch,
                   cur_branch, answer, result, exc, connectToken, prDest,
                   mrStatus, polled, polls, argVersion, pyproject, declared,
                   shownVersion, planCmd, bumpCmd, pkgVersion, commitMsg,
                   title, body, pull, merged, release>>

FetchLastCommitFails ==
    /\ hoster = "GitHub"
    /\ pc = "release"
    /\ Raises("ProviderError", "Fetching last commit...")

\* GitHub.release, lines 43-45, then line 233 and the end of main()
ReleaseGitHub ==
    /\ pc = "release_tag"
    /\ calls' = Append(calls, "release")
    /\ pc' = "halt"
    /\ result' = "return None"
    /\ lastLine' = "Done."
    /\ release' = [ref |-> lastCommit, tag |-> title, name |-> title,
                   body |-> body]
    /\ UNCHANGED <<argToken, envGitHub, envGitLab, repo_remote, hoster,
                   repo_name, token, backend, branch_names, main_branch,
                   cur_branch, answer, exc, connectToken, prDest, mrStatus,
                   polled, polls, argVersion, pyproject, declared,
                   shownVersion, planCmd, bumpCmd, pkgVersion, commitMsg,
                   title, body, pull, merged, lastCommit>>

ReleaseGitHubFails ==
    /\ pc = "release_tag"
    /\ Raises("ProviderError", "Create tag and release...")

\* GitLab.release, lines 75-76, then line 233 and the end of main()
ReleaseGitLab ==
    /\ pc = "release"
    /\ hoster = "GitLab"
    /\ calls' = Append(calls, "release")
    /\ pc' = "halt"
    /\ result' = "return None"
    /\ lastLine' = "Done."
    /\ release' = [ref |-> "main", tag |-> title, name |-> title,
                   body |-> body]
    /\ UNCHANGED <<argToken, envGitHub, envGitLab, repo_remote, hoster,
                   repo_name, token, backend, branch_names, main_branch,
                   cur_branch, answer, exc, connectToken, prDest, mrStatus,
                   polled, polls, argVersion, pyproject, declared,
                   shownVersion, planCmd, bumpCmd, pkgVersion, commitMsg,
                   title, body, pull, merged, lastCommit>>

ReleaseGitLabFails ==
    /\ hoster = "GitLab"
    /\ pc = "release"
    /\ Raises("ProviderError", "Creating release...")

----------------------------------------------------------------------------
(* The GitLab server: the merge request's merge_status changes on its own *)

ServerStatusChange ==
    /\ hoster = "GitLab"
    /\ pc \in {"merge", "merge_sleep", "merge_call"}
    /\ mrStatus' \in MergeStatuses \ {mrStatus}
    /\ UNCHANGED pc
    /\ UNCHANGED <<argToken, envGitHub, envGitLab, repo_remote, hoster,
                   repo_name, token, backend, branch_names, main_branch,
                   cur_branch, answer, result, exc, lastLine, calls,
                   connectToken, prDest, polled, polls, argVersion,
                   pyproject, declared, shownVersion, planCmd, bumpCmd,
                   pkgVersion, commitMsg, title, body, pull, merged,
                   lastCommit, release>>

----------------------------------------------------------------------------
(* Specifications *)

Program ==
    \/ Identify \/ IdentifyFails
    \/ SelectProvider
    \/ ResolveToken \/ ResolveTokenNoHoster
    \/ PrintInfo \/ PrintInfoUnbound
    \/ ValidateProject
    \/ LoadVersion \/ LoadVersionUnknownBackend \/ LoadVersionNoTool
    \/ ShowCurrentVersion \/ ShowCurrentVersionFails
    \/ Connect \/ ConnectFails
    \/ UseRepo \/ UseRepoFails
    \/ FetchBranches \/ FetchBranchesFails
    \/ CheckCurrentBranch \/ CheckCurrentBranchFails
    \/ Prompt \/ PromptEOF
    \/ Bump \/ BumpFails
    \/ ShowNewVersion \/ ShowNewVersionFails
    \/ Commit \/ CommitFails
    \/ Push \/ PushFails
    \/ MakeTitle \/ MakeTitleFails
    \/ CreatePull \/ CreatePullFails
    \/ MergeGitHub \/ MergeGitHubFails
    \/ PollStatus \/ PollStatusFails
    \/ Sleep
    \/ MergeGitLab \/ MergeGitLabFails
    \/ FetchLastCommit \/ FetchLastCommitFails
    \/ ReleaseGitHub \/ ReleaseGitHubFails
    \/ ReleaseGitLab \/ ReleaseGitLabFails

Next == Program \/ ServerStatusChange

Spec == Init /\ [][Next]_vars

\* the single thread of main() keeps running while it has a step to take
LiveSpec == Spec /\ WF_vars(Program)

----------------------------------------------------------------------------
(* Vocabulary of the properties *)

Called(c) == \E i \in DOMAIN calls : calls[i] = c

MutatingOps == {"bump", "commit", "push", "create_pull", "merge", "release"}
ExecuteOrder == <<"bump", "commit", "push", "create_pull", "merge", "release">>
ReadOnlyCalls == <<"connect", "use_repo", "get_branches">>

IsMutating(c) == c \in MutatingOps
Mutated == SelectSeq(calls, IsMutating)
IsPrefix(a, b) == Len(a) <= Len(b) /\ SubSeq(b, 1, Len(a)) = a

\* the answers the prompt 'Continue [y/N]' is documented to accept
YesAnswers == {<<"y">>, <<"Y">>}

Halted == pc = "halt"
ExitedWith(status) == Halted /\ ExitStatus(result) = status
HaltedWith(status, line) == ExitedWith(status) /\ exc = "none" /\ lastLine = line

----------------------------------------------------------------------------
(* C1 *)

\* C1 (as claimed): every answer typed at the prompt other than exactly "y" or
\* "Y" makes main return 0 with nothing done after the prompt: the only calls
\* of the run are the three read-only provider calls made before it.
C1_ConfirmationGate ==
    (answer # Unbound /\ answer \notin YesAnswers)
        => (ExitedWith(0) /\ result = "return 0" /\ calls = ReadOnlyCalls)

----------------------------------------------------------------------------
(* C2 *)

AllPreconditionsPassed ==
    /\ repo_remote \notin {Unbound, <<>>}
    /\ hoster # None
    /\ repo_name # Unbound
    /\ token # None
    /\ backend \in {"uv", "poetry"}
    /\ "develop" \in branch_names
    /\ main_branch \in branch_names \cap {"main", "master"}
    /\ cur_branch = "develop"

\* C2 (as claimed): a mutating operation has happened only if every
\* precondition passed and the user accepted with "y" or "Y"; a run that
\* halted without acceptance has mutated nothing.
C2_NoMutationUnlessConfirmed ==
    /\ (Mutated # <<>>) => (AllPreconditionsPassed /\ answer \in YesAnswers)
    /\ (Halted /\ answer \notin YesAnswers) => Mutated = <<>>

----------------------------------------------------------------------------
(* C3 *)

NoPatternMatches ==
    /\ repo_remote \notin {Unbound, <<>>}
    /\ ~Search(repo_remote, GitHubHost).matched
    /\ ~Search(repo_remote, GitLabHost).matched

\* C3 (as claimed): once provider selection has run on a non-empty remote URL
\* that matches neither pattern, the run has halted there with a message and
\* exit status 1; it is never at a later step with the provider unset.
C3_HaltsAtProviderSelection ==
    (NoPatternMatches /\ pc \notin {"identify", "select"})
        => (ExitedWith(1) /\ exc = "none" /\ token = None /\ lastLine # "<repo_remote>")

----------------------------------------------------------------------------
(* C4 *)

\* number of Execute sub-steps completed when main() is at each position
\* after the prompt
CompletedAt ==
    [p \in {"bump", "newversion", "commit", "push", "title", "create_pull",
            "merge", "merge_sleep", "merge_call", "release", "release_tag"} |->
        CASE p = "bump" -> 0
          [] p \in {"newversion", "commit"} -> 1
          [] p = "push" -> 2
          [] p \in {"title", "create_pull"} -> 3
          [] p \in {"merge", "merge_sleep", "merge_call"} -> 4
          [] p \in {"release", "release_tag"} -> 5]

\* C4: in a confirmed run the mutating operations carried out so far are
\* always an initial part of bump, commit, push, create_pull, merge, release
\* (each once, in this order, the pull request going from develop to the
\* main branch), a sub-step is reached only when all earlier ones are done,
\* and a run that ends without an exception has done all six and printed
\* 'Done.'.
C4_ExecuteInOrder ==
    answer \in YesAnswers =>
        /\ IsPrefix(Mutated, ExecuteOrder)
        /\ pc \in DOMAIN CompletedAt => Len(Mutated) = CompletedAt[pc]
        /\ Called("create_pull") => prDest = main_branch
        /\ (Halted /\ exc = "none")
              => (Mutated = ExecuteOrder /\ lastLine = "Done."
                  /\ result = "return None")
        /\ lastLine = "Done." => Halted /\ exc = "none"

C4_Witness ==
    /\ answer = <<"y">>
    /\ Halted
    /\ lastLine = "Done."
    /\ Mutated = ExecuteOrder
    /\ prDest = "master"

----------------------------------------------------------------------------
(* C5 *)

\* C5: once the branch list is fetched, a list without develop has halted the
\* run with 'No develop branch found.'; otherwise a list without main and
\* master has halted it with 'No main/master branch found.'; otherwise a
\* current branch other than develop has halted it with 'Current branch is
\* not develop.'; each with exit status 1, the two remote checks before the
\* current branch is even read.
C5_BranchChecksInOrder ==
    Called("get_branches") =>
        /\ "develop" \notin branch_names
              => (HaltedWith(1, "No develop branch found.")
                  /\ cur_branch = Unset)
        /\ ("develop" \in branch_names
            /\ branch_names \cap {"main", "master"} = {})
              => (HaltedWith(1, "No main/master branch found.")
                  /\ cur_branch = Unset)
        /\ ("develop" \in branch_names
            /\ branch_names \cap {"main", "master"} # {}
            /\ cur_branch \notin {Unset, "develop"})
              => HaltedWith(1, "Current branch is not develop.")
        /\ (answer # Unbound \/ pc = "prompt")
              => ("develop" \in branch_names
                  /\ branch_names \cap {"main", "master"} # {}
                  /\ cur_branch = "develop")

C5_Witness ==
    /\ branch_names = {"develop", "master"}
    /\ cur_branch = "Develop"
    /\ HaltedWith(1, "Current branch is not develop.")

----------------------------------------------------------------------------
(* C6 *)

ExplanatoryLines ==
    { "Not a git repository.", "No <hoster> access token found.",
      "No pyproject.toml found.", "No develop branch found.",
      "No main/master branch found.", "Current branch is not develop." }

\* C6 (as claimed): a run that has ended has exit status 0 exactly if it
\* printed 'Done.' or was aborted at the prompt; and each precondition
\* failure (no remote, no provider match, no token, no descriptor, missing
\* branches, wrong current branch) has ended it with exit status 1 after an
\* explanatory line.
C6_ExitCodes ==
    Halted =>
        /\ ExitStatus(result) = 0
              <=> (lastLine = "Done." \/ (answer # Unbound /\ result = "return 0"))
        /\ (result \in {"return 1", "sys.exit(1)"})
              => (ExitStatus(result) = 1 /\ lastLine \in ExplanatoryLines)
        /\ (repo_remote = <<>> \/ NoPatternMatches)
              => (ExitStatus(result) = 1 /\ lastLine \in ExplanatoryLines)

----------------------------------------------------------------------------
(* C7 *)

InMergeWait == hoster = "GitLab" /\ pc \in {"merge", "merge_sleep"}

\* what one step of GitLab.merge may do
MergeStepOK ==
    /\ (hoster = "GitLab" /\ ~Called("merge") /\ Called("merge")')
          => (pc = "merge_call" /\ polled = "can_be_merged")
    /\ (hoster = "GitLab" /\ pc = "merge" /\ pc' # pc /\ exc' = "none")
          => /\ polled' = mrStatus
             /\ polled' = "can_be_merged" => pc' = "merge_call"
             /\ polled' # "can_be_merged" => pc' = "merge_sleep"
    /\ pc = "merge_sleep"
          => (pc' \in {"merge", "merge_sleep"} /\ calls' = calls)

\* C7: on GitLab the merge call is issued only from the position reached by a
\* poll that returned "can_be_merged", with no other poll in between; a poll
\* that returned anything else is followed by the sleep and the next poll,
\* and nothing is merged meanwhile.
C7_MergeOnlyAfterMergeable ==
    /\ [](pc = "merge_call" => polled = "can_be_merged")
    /\ [](pc = "merge_sleep" => (polled # "can_be_merged" /\ ~Called("merge")))
    /\ [][MergeStepOK]_vars

\* the merge call is about to be issued on the strength of the last poll,
\* although the server's status has changed since
C7_Witness ==
    /\ pc = "merge_call"
    /\ polled = "can_be_merged"
    /\ mrStatus # "can_be_merged"
    /\ polls >= 2

----------------------------------------------------------------------------
(* C8 *)

\* C8: in a run where no call raises, if the merge request's status never is
\* "can_be_merged" then GitLab.merge, once entered, stays in its poll loop
\* for ever: no number of polls ends it, and nothing is merged or released;
\* if the status from some point on always is "can_be_merged" then the run
\* merges, creates the release and ends with 'Done.'.
C8_UnboundedMergeWait ==
    /\ ([](mrStatus # "can_be_merged") /\ [](exc = "none") /\ <>InMergeWait)
          => (<>[]InMergeWait /\ [](~Called("merge") /\ ~Called("release")))
    /\ (<>[](mrStatus = "can_be_merged") /\ [](exc = "none") /\ <>InMergeWait)
          => <>(Halted /\ result = "return None" /\ Called("merge")
                /\ Called("release") /\ lastLine = "Done.")

\* the loop has gone round at least twice and the status is still not
\* "can_be_merged"
C8_Witness ==
    /\ InMergeWait
    /\ polls >= 2
    /\ polled \in {"checking", "cannot_be_merged"}
    /\ mrStatus # "can_be_merged"

----------------------------------------------------------------------------
(* C9 *)

\* the names n for which url reads  ...<host><: or /><n>.git  up to its end
NamesAfter(url, host) ==
    { n \in { SubSeq(url, k, Len(url) - Len(DotGit)) :
                 k \in 1..(Len(url) - Len(DotGit) + 1) } :
        \E sep \in Separators :
            LET tail == host \o <<sep>> \o n \o DotGit IN
            /\ Len(tail) <= Len(url)
            /\ SubSeq(url, Len(url) - Len(tail) + 1, Len(url)) = tail }

MatchesPattern(url, host) == NamesAfter(url, host) # {}

\* group 1 of the leftmost match: the longest such name
CapturedName(url, host) ==
    CHOOSE n \in NamesAfter(url, host) :
        \A m \in NamesAfter(url, host) : Len(m) <= Len(n)

Selected == pc \notin {"identify", "select"} /\ repo_remote # Unbound

\* C9 (as claimed): a remote URL matching the GitHub pattern selects GitHub
\* with the name the GitHub pattern captures, and one matching the GitLab
\* pattern selects GitLab with the name the GitLab pattern captures.
C9_ProviderSelection ==
    Selected =>
        /\ MatchesPattern(repo_remote, GitHubHost)
              => (hoster = "GitHub"
                  /\ repo_name = CapturedName(repo_remote, GitHubHost))
        /\ MatchesPattern(repo_remote, GitLabHost)
              => (hoster = "GitLab"
                  /\ repo_name = CapturedName(repo_remote, GitLabHost))

\* C9 (amended): a remote URL matching the GitLab pattern selects GitLab with
\* the name the GitLab pattern captures, whether or not the GitHub pattern
\* matches too; one matching the GitHub pattern and not the GitLab pattern
\* selects GitHub with the name the GitHub pattern captures.
C9_ProviderSelectionAmended ==
    Selected =>
        /\ (MatchesPattern(repo_remote, GitHubHost)
            /\ ~MatchesPattern(repo_remote, GitLabHost))
              => (hoster = "GitHub"
                  /\ repo_name = CapturedName(repo_remote, GitHubHost))
        /\ MatchesPattern(repo_remote, GitLabHost)
              => (hoster = "GitLab"
                  /\ repo_name = CapturedName(repo_remote, GitLabHost))

\* a URL that both patterns match has been given to GitLab
C9_Witness ==
    /\ Selected
    /\ MatchesPattern(repo_remote, GitHubHost)
    /\ MatchesPattern(repo_remote, GitLabHost)
    /\ hoster = "GitLab"
    /\ repo_name = PathGhW

----------------------------------------------------------------------------
(* C10 *)

\* the one environment variable that belongs to the selected provider
ProviderEnvToken == IF hoster = "GitHub" THEN envGitHub ELSE envGitLab

ExpectedToken == IF argToken # None THEN argToken ELSE ProviderEnvToken

\* C10: the token hoster.connect receives is the -t argument when there is
\* one and otherwise the selected provider's own environment variable; and a
\* run with a provider, without -t and without that variable has stopped at
\* token resolution with the message and 'return 1', before the descriptor
\* was looked at and before any provider call, whatever the other provider's
\* variable holds.
C10_TokenResolution ==
    /\ Called("connect")
          => (connectToken = ExpectedToken /\ connectToken # None)
    /\ (hoster # None /\ pc # "token" /\ ExpectedToken = None)
          => (HaltedWith(1, "No <hoster> access token found.")
              /\ result = "return 1" /\ calls = <<>> /\ backend = Unset)

\* GitLab connected with its own variable while GitHub's was set too
C10_Witness ==
    /\ Called("connect")
    /\ hoster = "GitLab"
    /\ argToken = None
    /\ envGitHub = "t-gh"
    /\ connectToken = "t-gl"

\* GitHub selected, GITHUB_ACCESS_TOKEN unset, GITLAB_ACCESS_TOKEN set: stopped
C10_WitnessAbsent ==
    /\ hoster = "GitHub"
    /\ argToken = None
    /\ envGitHub = None
    /\ envGitLab = "t-gl"
    /\ HaltedWith(1, "No <hoster> access token found.")

----------------------------------------------------------------------------
(* C11 *)

\* what one step may do to the run when a call can fail
FailureStepOK ==
    /\ exc' # "none"
          => (exc = "none" /\ pc' = "halt" /\ result' = "raise"
              /\ calls' = calls)
    /\ IsPrefix(calls, calls')
    /\ pc # "halt"
    /\ (pc \in DOMAIN CompletedAt /\ pc' \in DOMAIN CompletedAt)
          => CompletedAt[pc'] >= CompletedAt[pc]

\* C11: a step that raises ends the run at once at that sub-step and leaves
\* the calls made so far as they are; no step ever removes a call that was
\* made (no rollback); nothing happens after the run has ended and main()
\* never goes back to an earlier sub-step (no retry), so no mutating
\* operation is made twice.
C11_NoRollbackNoRetry ==
    /\ [][FailureStepOK]_vars
    /\ [](IsPrefix(Mutated, ExecuteOrder))
    /\ []((Halted /\ exc # "none") => result = "raise")

\* the merge failed: the run is over, the pull request stays open and the
\* bumped version stays committed and pushed
C11_Witness ==
    /\ Halted
    /\ exc = "ProviderError"
    /\ lastLine = "Merging PR..."
    /\ Mutated = <<"bump", "commit", "push", "create_pull">>

----------------------------------------------------------------------------
(* C12 *)

\* the command the claim gives for a backend and a requested version
ClaimedCommand ==
    IF argVersion \in {None, "patch"}
    THEN IF backend = "uv" THEN "uv version --bump patch"
         ELSE "poetry version patch"
    ELSE IF backend = "uv" THEN "uv version --bump " \o argVersion
         ELSE "poetry version " \o argVersion

\* C12: the command shown in the plan and the command run by the bump are
\* "uv version --bump patch" (uv) or "poetry version patch" (poetry) both
\* without -v and with -v patch, and "uv version --bump v" or
\* "poetry version v" for any other requested version v.
C12_BumpCommand ==
    /\ planCmd # Unset => planCmd = ClaimedCommand
    /\ bumpCmd # Unset => bumpCmd = ClaimedCommand

\* no version requested, poetry backend: the patch command was run
C12_Witness ==
    /\ argVersion = None
    /\ backend = "poetry"
    /\ Called("bump")
    /\ bumpCmd = "poetry version patch"
    /\ planCmd = "poetry version patch"

----------------------------------------------------------------------------
(* C13 *)

UnknownBackendError ==
    "RuntimeError: Could not determine backend from pyproject.toml."
ToolNotFoundErrors ==
    {"RuntimeError: No uv found.", "RuntimeError: No poetry found."}

\* C13: a descriptor declaring hatchling.build gives backend uv, one
\* declaring poetry.core.masonry.api gives backend poetry, any other
\* declaration ends the run with 'Could not determine backend' and no backend
\* set; a tool that cannot be called ends it with 'No <backend> found.' for
\* the detected backend; after either failure no provider call and no
\* mutating operation has been made.
C13_BackendDetection ==
    /\ declared = "hatchling.build" => backend = "uv"
    /\ declared = "poetry.core.masonry.api" => backend = "poetry"
    /\ declared \notin {Unset, "hatchling.build", "poetry.core.masonry.api"}
          => (Halted /\ exc = UnknownBackendError /\ backend = Unset)
    /\ backend # Unset
          => (declared # Unset /\ exc # UnknownBackendError)
    /\ exc \in ToolNotFoundErrors
          => exc = "RuntimeError: No " \o backend \o " found."
    /\ exc \in ToolNotFoundErrors \cup {UnknownBackendError}
          => (Halted /\ result = "raise" /\ calls = <<>>
              /\ connectToken = None /\ shownVersion = Unset)

\* a setuptools project: the run has ended with the backend error
C13_Witness ==
    /\ declared = "setuptools.build_meta"
    /\ Halted
    /\ exc = UnknownBackendError
    /\ calls = <<>>

\* a hatchling project without uv installed
C13_WitnessNoTool ==
    /\ declared = "hatchling.build"
    /\ Halted
    /\ exc = "RuntimeError: No uv found."
    /\ calls = <<>>

----------------------------------------------------------------------------
(* C14 *)

RemoteBranchChecksPassed ==
    /\ Called("get_branches")
    /\ "develop" \in branch_names
    /\ branch_names \cap {"main", "master"} # {}

\* C14: each precondition step has run only after the ones before it passed:
\* the token is resolved only with a non-empty remote URL, the descriptor is
\* looked for only with a token, the backend is read only from an existing
\* descriptor, the current version is read only with a known backend; a
\* provider call (connect, use_repo, get_branches, in this order) is made
\* only after all of these; the current branch is read only after the two
\* remote branch checks passed, and the plan is shown only on develop.
C14_PreconditionOrder ==
    /\ token # None => repo_remote \notin {Unbound, <<>>}
    /\ pyproject # Unset => token # None
    /\ declared # Unset => pyproject = "present"
    /\ shownVersion # Unset => backend \in {"uv", "poetry"}
    /\ calls # <<>>
          => /\ repo_remote \notin {Unbound, <<>>}
             /\ token # None
             /\ pyproject = "present"
             /\ backend \in {"uv", "poetry"}
             /\ shownVersion # Unset
    /\ \/ IsPrefix(calls, ReadOnlyCalls)
       \/ IsPrefix(ReadOnlyCalls, calls)
    /\ cur_branch # Unset => RemoteBranchChecksPassed
    /\ planCmd # Unset => (RemoteBranchChecksPassed /\ cur_branch = "develop")

\* all preconditions passed: the run waits at the prompt
C14_Witness ==
    /\ pc = "prompt"
    /\ calls = ReadOnlyCalls
    /\ pyproject = "present"
    /\ shownVersion = DeclaredVersion
    /\ cur_branch = "develop"

----------------------------------------------------------------------------
(* C15 *)

\* C15 (as claimed): the request goes to main whenever the branch list has
\* main and to master only when it has master and not main; and the release
\* is created from the branch the request was merged into, on both providers.
C15_ReleaseFromMergedBranch ==
    /\ Called("create_pull")
          => /\ pull.src = "develop"
             /\ pull.dest = prDest
             /\ pull.dest = IF "main" \in branch_names THEN "main" ELSE "master"
             /\ pull.dest \in branch_names
    /\ Called("release") => release.ref = pull.dest

----------------------------------------------------------------------------
(* C16 *)

\* the version the bump is asked for, for the versions used here
RequestedVersion == IF argVersion \in {None, "patch"} THEN "1.2.4" ELSE argVersion

\* after the bump the descriptor declares the requested version, which is
\* not the one shown as 'Current version' unless that very version was
\* requested, and main's strings are built from it
StringsFromNewVersion ==
    /\ Called("bump")
          => /\ pkgVersion = RequestedVersion
             /\ shownVersion = DeclaredVersion
             /\ RequestedVersion # DeclaredVersion => pkgVersion # shownVersion
    /\ ~Called("bump") => pkgVersion = DeclaredVersion
    /\ Called("commit") => commitMsg = "v" \o pkgVersion
    /\ title # Unset
          => (title = "v" \o pkgVersion /\ body = "version " \o pkgVersion)
    /\ Called("create_pull") => pull.title = "v" \o pkgVersion
    /\ Called("release")
          => /\ release.tag = "v" \o pkgVersion
             /\ release.name = "v" \o pkgVersion
             /\ release.body = "version " \o pkgVersion

\* the declared version changes in the bump sub-step only
VersionStepOK ==
    pkgVersion' # pkgVersion
        => (pc = "bump" /\ ~Called("bump") /\ Mutated' = <<"bump">>)

\* C16 (as claimed): in a confirmed run the commit message, the request
\* title, the merge title and the release tag and name are 'v<V>' and the
\* body of request, merge and release is 'version <V>', V being the version
\* declared after the bump; only the bump changes the declared version.
C16_TitlesFromNewVersion ==
    /\ [](StringsFromNewVersion
          /\ (Called("create_pull") => pull.body = "version " \o pkgVersion)
          /\ (merged.done => (merged.title = "v" \o pkgVersion
                              /\ merged.body = "version " \o pkgVersion)))
    /\ [][VersionStepOK]_vars

\* C16 (amended): in a confirmed run the commit message, the request title
\* and the release tag and name are 'v<V>' and the release body is
\* 'version <V>', V being the version declared after the bump; the request
\* body 'version <V>' and the merge title 'v<V>' with message 'version <V>'
\* are set on GitHub only, the GitLab variant creates the request without a
\* body and merges without title or message; only the bump changes the
\* declared version.
C16_TitlesFromNewVersionAmended ==
    /\ [](StringsFromNewVersion
          /\ (Called("create_pull")
                => pull.body = IF hoster = "GitHub"
                               THEN "version " \o pkgVersion ELSE None)
          /\ (merged.done
                => IF hoster = "GitHub"
                   THEN /\ merged.title = "v" \o pkgVersion
                        /\ merged.body = "version " \o pkgVersion
                   ELSE merged.title = None /\ merged.body = None))
    /\ [][VersionStepOK]_vars

\* a finished GitLab release of 1.2.4 over 1.2.3: tagged v1.2.4, merged
\* without a title
C16_Witness ==
    /\ hoster = "GitLab"
    /\ Called("release")
    /\ shownVersion = "1.2.3"
    /\ commitMsg = "v1.2.4"
    /\ pull.title = "v1.2.4"
    /\ release.tag = "v1.2.4"
    /\ release.body = "version 1.2.4"
    /\ merged.done
    /\ merged.title = None

====
